---- MODULE Spec2Model ----
(***************************************************************************)
(* A model of src/platform/with_egl/surface.rs: the lazily initialised     *)
(* EGL display, pbuffer surfaces shared through an Arc, and the            *)
(* surface-texture binding (NativeSurfaceTexture).                         *)
(*                                                                         *)
(* The EGL display connection and the GL capability object are mocks that  *)
(* record the native calls they receive and answer nondeterministically.   *)
(***************************************************************************)
EXTENDS Integers, Sequences, FiniteSets, Bags, TLC

\* ------------------------------------------------------------------ bounds
MaxNativeSurfaces == 1   \* pbuffers the mock display hands out
MaxValues == 2           \* live Surface values (held by the caller or inside Bindings)
MaxTextures == 2         \* texture names the mock graphics API hands out
MaxUnbinds == 1          \* destroy() calls made on one Binding
MaxWrapperDrops == 1     \* a bare wrapper is dropped for a handle with fewer DestroySurface calls
MaxThreads == 3          \* threads that use the display concurrently
MaxMajorVersion == 255   \* major versions fed to get_pbuffer_renderable_type

\* ------------------------------------------------- constants of EGL and GL
OPENGL_ES_BIT == 1
OPENGL_ES2_BIT == 4
OPENGL_BIT == 8
OPENGL_ES3_BIT == 64
NO_DISPLAY == 0
NO_SURFACE == <<0, 0>>   \* a native handle is a pair <<high 32 bits, low 32 bits>>
EGL_FALSE == 0
EGL_TRUE == 1
GL_NO_ERROR == 0
GL_INVALID_OPERATION == 1282

\* What the mock graphics API answers to get_error.
GlErrors == {GL_NO_ERROR, GL_INVALID_OPERATION}

ApiTypes == {"Gl", "Gles"}
\* What callers ask NativeSurface::new for.
Requests ==
    {[api_type |-> "Gles", api_version |-> 3, size |-> <<64, 64>>, format |-> "RGBA8"],
     [api_type |-> "Gl", api_version |-> 2, size |-> <<0, 64>>, format |-> "RGB8"]}
DisplayAnswers == {NO_DISPLAY, 7, 8}

NoSurface == [none |-> TRUE]

VARIABLES
    debug_assertions,   \* the build: TRUE when debug_assert! is compiled in
    once,               \* state of the Once behind lazy_static's DISPLAY
    DISPLAY,            \* the value stored in the lazy static (NO_DISPLAY until set)
    getDisplayCalls,    \* egl::GetDisplay calls received
    initializeCalls,    \* egl::Initialize calls received
    tpc,                \* per thread: where it is in its access to DISPLAY
    tseen,              \* per thread: the handle its last access observed
    held,               \* the Surface values owned by the caller (a bag)
    bindings,           \* the NativeSurfaceTexture values (a bag), each with its history:
                        \* what was bound and which textures its unbinds deleted
    strong,             \* Arc strong count of each native surface's wrapper
    nextSurface,        \* pbuffers created so far + 1
    destroyCalls,       \* egl::DestroySurface calls received, per native handle
    texImages,          \* <<handle, texture>> pairs bound by BindTexImage and not released
    glTextures,         \* the graphics API's texture objects, by name
    nextTexture,        \* texture names generated so far + 1
    boundTexture,       \* the current TEXTURE_2D binding
    requested,          \* per native handle: the request its creation was called with
    ledger,             \* account of the texture and image-binding calls received
    calls,              \* native calls issued by the latest operation, in order
    last,               \* the latest operation, its inputs and its outcome
    rt_in,              \* input of get_pbuffer_renderable_type
    rt_out              \* its result

vars_display == <<once, DISPLAY, getDisplayCalls, initializeCalls>>
vars_threads == <<tpc, tseen>>
vars_surface == <<held, bindings, strong, nextSurface, destroyCalls>>
vars_gl == <<texImages, glTextures, nextTexture, boundTexture>>
vars_rt == <<rt_in, rt_out>>
vars_account == <<requested, ledger>>
vars == <<debug_assertions, vars_display, vars_threads, vars_surface, vars_gl,
          vars_account, calls, last, vars_rt>>

Threads == 1..MaxThreads
HandleOf(n) == <<n % 2, (n + 1) \div 2>>
Handles == {HandleOf(n) : n \in 1..MaxNativeSurfaces}
TextureNames == 0..MaxTextures

\* ------------------------------------------------ Configuration Selector
\* Faulty variant: the first guard written `version <= 2`, which shadows the ES2 arm.
get_pbuffer_renderable_type_le2(api_type, major) ==
    IF api_type = "Gl" THEN OPENGL_BIT
    ELSE IF major <= 2 THEN OPENGL_ES_BIT
    ELSE OPENGL_ES3_BIT

get_pbuffer_renderable_type(api_type, major) ==
    IF api_type = "Gl" THEN OPENGL_BIT
    ELSE IF major < 2 THEN OPENGL_ES_BIT
    ELSE IF major = 2 THEN OPENGL_ES2_BIT
    ELSE OPENGL_ES3_BIT

\* ----------------------------------------------------- Display Registry
\* The initializer closure of lazy_static's DISPLAY, given the display's answers.
LazyInit(gd, ini) ==
    IF gd = NO_DISPLAY
    THEN [panicked |-> TRUE, msg |-> "No EGL display found!", value |-> NO_DISPLAY,
          gets |-> 1, inits |-> 0]
    ELSE IF ini = EGL_FALSE
    THEN [panicked |-> TRUE, msg |-> "Failed to initialize the EGL display!",
          value |-> NO_DISPLAY, gets |-> 1, inits |-> 1]
    ELSE [panicked |-> FALSE, msg |-> "", value |-> gd, gets |-> 1, inits |-> 1]

\* Faulty variant: a check-then-initialize without the Once, which a second thread
\* passes while the first is still initializing.
CanStartInit_unguarded(o) == o \in {"incomplete", "running"}

\* Once::call_once lets exactly one caller run the closure: the one that finds
\* the Once incomplete.
CanStartInit(o) == o = "incomplete"

\* A thread starts an access to *DISPLAY.
DerefBegin(t) ==
    /\ tpc[t] = "idle"
    /\ \/ /\ CanStartInit(once)
          /\ once' = "running"
          /\ tpc' = [tpc EXCEPT ![t] = "initializing"]
          /\ UNCHANGED tseen
       \/ /\ ~CanStartInit(once)
          /\ once = "running"
          /\ tpc' = [tpc EXCEPT ![t] = "blocked"]
          /\ UNCHANGED <<once, tseen>>
       \/ /\ once = "complete"
          /\ tpc' = [tpc EXCEPT ![t] = "done"]
          /\ tseen' = [tseen EXCEPT ![t] = DISPLAY]
          /\ UNCHANGED once
       \/ /\ once = "poisoned"
          /\ tpc' = [tpc EXCEPT ![t] = "panicked"]
          /\ UNCHANGED <<once, tseen>>
    /\ UNCHANGED <<DISPLAY, getDisplayCalls, initializeCalls>>

\* The thread that won the Once runs the closure, stores the value, completes the Once
\* and reads the value back; a panic in the closure poisons the Once.
DerefInit(t) ==
    /\ tpc[t] = "initializing"
    /\ \E gd \in DisplayAnswers, ini \in {EGL_FALSE, EGL_TRUE} :
         LET r == LazyInit(gd, ini) IN
         /\ getDisplayCalls' = getDisplayCalls + r.gets
         /\ initializeCalls' = initializeCalls + r.inits
         /\ IF r.panicked
            THEN /\ once' = "poisoned"
                 /\ tpc' = [tpc EXCEPT ![t] = "panicked"]
                 /\ UNCHANGED <<DISPLAY, tseen>>
            ELSE /\ once' = "complete"
                 /\ DISPLAY' = r.value
                 /\ tpc' = [tpc EXCEPT ![t] = "done"]
                 /\ tseen' = [tseen EXCEPT ![t] = r.value]

\* A thread blocked in call_once is released when the Once completes or is poisoned.
DerefWake(t) ==
    /\ tpc[t] = "blocked"
    /\ \/ /\ once = "complete"
          /\ tpc' = [tpc EXCEPT ![t] = "done"]
          /\ tseen' = [tseen EXCEPT ![t] = DISPLAY]
       \/ /\ once = "poisoned"
          /\ tpc' = [tpc EXCEPT ![t] = "panicked"]
          /\ UNCHANGED tseen
    /\ UNCHANGED vars_display

\* A thread that finished an access makes another one.
DerefAgain(t) ==
    /\ tpc[t] = "done"
    /\ tpc' = [tpc EXCEPT ![t] = "idle"]
    /\ UNCHANGED <<tseen, vars_display>>

\* One whole access to *DISPLAY by a single caller, as one step: the state of the
\* Once and the display's answers decide the outcome.
DisplayDeref(o, d, gd, ini) ==
    IF o = "complete"
    THEN [panicked |-> FALSE, msg |-> "", value |-> d, once |-> o, gets |-> 0, inits |-> 0]
    ELSE IF CanStartInit(o)
    THEN LET r == LazyInit(gd, ini) IN
         [panicked |-> r.panicked, msg |-> r.msg, value |-> r.value,
          once |-> IF r.panicked THEN "poisoned" ELSE "complete",
          gets |-> r.gets, inits |-> r.inits]
    ELSE [panicked |-> TRUE, msg |-> "Once instance has previously been poisoned",
          value |-> d, once |-> o, gets |-> 0, inits |-> 0]

\* ------------------------------------------------------------- Surface
IsNone(x) == "none" \in DOMAIN x

\* One native call as the mocks record it.
Call(c, s, n, m, p, v) ==
    [call |-> c, surface |-> s, n |-> n, m |-> m, pname |-> p, pvalue |-> v]

CallNames(cs) == {cs[i].call : i \in DOMAIN cs}

\* The calls of one access to *DISPLAY.
DisplayCalls(dd) ==
    (IF dd.gets > 0 THEN <<Call("GetDisplay", NO_SURFACE, 0, 0, "", "")>> ELSE <<>>)
    \o (IF dd.inits > 0 THEN <<Call("Initialize", NO_SURFACE, 0, 0, "", "")>> ELSE <<>>)

\* The accessors of NativeSurface.
size(s) == s.size
format(s) == s.format
api_version(s) == s.api_version
\* `self.wrapper.0 as usize as u32`: the low 32 bits of the native handle.
id(s) == s.wrapper[2]

Observe(s) == [size |-> size(s), format |-> format(s),
               api_version |-> api_version(s), id |-> id(s)]

One(x) == SetToBag({x})
Held == BagToSet(held)
Bound == BagToSet(bindings)
LiveValues == BagCardinality(held) + BagCardinality(bindings)

\* The Surface values that refer to native surface h: those the caller holds and
\* those owned by Bindings.
ValuesOf(h) ==
    BagCardinality([s \in {x \in Held : x.wrapper = h} |-> held[s]])
    + BagCardinality([e \in {x \in Bound : x.value.surface.wrapper = h} |-> bindings[e]])

\* Arc::clone and Arc's drop on the strong count.
ArcClone(c) == c + 1

\* Faulty variant: a drop that does not give up its reference.
ArcDrop_forgotten(c) == c

ArcDrop(c) == c - 1

\* What dropping one Surface value that refers to h does: the Arc's count goes
\* down, and the wrapper's Drop calls DestroySurface when it reaches zero. (The
\* wrapper exists, so *DISPLAY is initialized and reading it changes nothing.)
DropValue(h) ==
    LET c == ArcDrop(strong[h]) IN
    [strong |-> [strong EXCEPT ![h] = c],
     destroyCalls |-> IF c = 0 THEN [destroyCalls EXCEPT ![h] = @ + 1] ELSE destroyCalls,
     calls |-> IF c = 0 THEN <<Call("DestroySurface", h, 0, 0, "", "")>> ELSE <<>>]

\* The configuration the mock display writes back for ChooseConfig.
ChosenConfig(found) == IF found = 0 THEN 0 ELSE 1

\* Faulty variant: the `configs_found == 0` check left out.
CreateOutcome_unchecked(chooseOk, found, created) ==
    IF chooseOk # EGL_TRUE THEN "Failed to choose an EGL configuration!"
    ELSE IF created = NO_SURFACE THEN "Failed to create EGL surface!"
    ELSE ""

\* How NativeSurface::from_version_size_format ends once *DISPLAY is there: the
\* panic that ends it, or "" when it returns a NativeSurface.
CreateOutcome(chooseOk, found, created) ==
    IF chooseOk # EGL_TRUE THEN "Failed to choose an EGL configuration!"
    ELSE IF found = 0 THEN "No valid EGL configurations found!"
    ELSE IF created = NO_SURFACE THEN "Failed to create EGL surface!"
    ELSE ""

\* The outcomes in which from_version_size_format got as far as CreatePbufferSurface.
ReachedCreate(msg) == msg \in {"", "Failed to create EGL surface!"}

\* Faulty variant: the struct built without the size that was asked for.
NativeSurface_unsized(wrapper, config, version, sz, fmt) ==
    [wrapper |-> wrapper, config |-> config, api_version |-> version,
     size |-> <<0, 0>>, format |-> fmt]

\* The struct that from_version_size_format builds: `NativeSurface { wrapper,
\* config, api_version, size: *size, format }`.
NativeSurface(wrapper, config, version, sz, fmt) ==
    [wrapper |-> wrapper, config |-> config, api_version |-> version,
     size |-> sz, format |-> fmt]

\* NativeSurface::new / from_version_size_format. The answers of the display are
\* drawn only where the call that asks for them is made.
Create ==
    /\ nextSurface <= MaxNativeSurfaces
    /\ LiveValues < MaxValues
    /\ \E req \in Requests,
          gd \in (IF once = "incomplete" THEN DisplayAnswers ELSE {NO_DISPLAY}) :
       \E ini \in (IF once = "incomplete" /\ gd # NO_DISPLAY
                   THEN {EGL_FALSE, EGL_TRUE} ELSE {EGL_FALSE}) :
       LET dd == DisplayDeref(once, DISPLAY, gd, ini) IN
       \E chooseOk \in (IF dd.panicked THEN {EGL_FALSE} ELSE {EGL_FALSE, EGL_TRUE}) :
       \E found \in (IF chooseOk = EGL_TRUE THEN {0, 1} ELSE {0}) :
       \E created \in (IF chooseOk = EGL_TRUE /\ found # 0
                       THEN {NO_SURFACE, HandleOf(nextSurface)} ELSE {NO_SURFACE}) :
         LET rt == get_pbuffer_renderable_type(req.api_type, req.api_version)
             msg == IF dd.panicked THEN dd.msg ELSE CreateOutcome(chooseOk, found, created)
             choose == <<Call("ChooseConfig", NO_SURFACE, rt, 1, "", "")>>
             create == <<Call("CreatePbufferSurface", created, req.size[1], req.size[2],
                              "", "")>>
             surface == NativeSurface(created, ChosenConfig(found), req.api_version,
                                      req.size, req.format)
             input == [request |-> req, chooseOk |-> chooseOk, found |-> found,
                       created |-> created]
         IN
         /\ once' = dd.once
         /\ DISPLAY' = dd.value
         /\ getDisplayCalls' = getDisplayCalls + dd.gets
         /\ initializeCalls' = initializeCalls + dd.inits
         /\ calls' = DisplayCalls(dd)
                     \o (IF dd.panicked THEN <<>> ELSE choose)
                     \o (IF ~dd.panicked /\ ReachedCreate(msg) THEN create ELSE <<>>)
         /\ IF msg = ""
            THEN /\ held' = held (+) One(surface)
                 /\ strong' = [strong EXCEPT ![created] = 1]
                 /\ nextSurface' = nextSurface + 1
                 /\ requested' = [requested EXCEPT ![created] = req]
                 /\ last' = [op |-> "create", status |-> "returned", msg |-> "",
                             ret |-> surface, input |-> input]
            ELSE /\ UNCHANGED <<held, strong, nextSurface, requested>>
                 /\ last' = [op |-> "create", status |-> "panicked", msg |-> msg,
                             ret |-> NoSurface, input |-> input]
    /\ UNCHANGED <<debug_assertions, vars_threads, bindings, destroyCalls,
                   vars_gl, ledger, vars_rt>>

\* #[derive(Clone)] on NativeSurface: the fields are copied and the Arc is cloned.
Clone(s) ==
    /\ LiveValues < MaxValues
    /\ held' = held (+) One(s)
    /\ strong' = [strong EXCEPT ![s.wrapper] = ArcClone(@)]
    /\ calls' = <<>>
    /\ last' = [op |-> "clone", status |-> "returned", msg |-> "", ret |-> s,
                input |-> s]
    /\ UNCHANGED <<debug_assertions, vars_display, vars_threads, bindings,
                   nextSurface, destroyCalls, vars_gl, vars_account, vars_rt>>

\* A Surface value held by the caller goes out of scope.
DropSurface(s) ==
    /\ LET d == DropValue(s.wrapper) IN
       /\ held' = held (-) One(s)
       /\ strong' = d.strong
       /\ destroyCalls' = d.destroyCalls
       /\ calls' = d.calls
       /\ last' = [op |-> "drop_surface", status |-> "returned", msg |-> "",
                   ret |-> NoSurface, input |-> s]
    /\ UNCHANGED <<debug_assertions, vars_display, vars_threads, bindings,
                   nextSurface, vars_gl, vars_account, vars_rt>>

\* Drop for EGLSurfaceWrapper on a wrapper the caller built itself: the struct and
\* its field are public, so `EGLSurfaceWrapper(handle)` can be made for any handle,
\* whatever Surface values refer to it. Its drop reads *DISPLAY, which runs the
\* initializer when nothing has used the display yet, and calls DestroySurface.
DropWrapper(h) ==
    /\ destroyCalls[h] < MaxWrapperDrops
    /\ \E gd \in (IF once = "incomplete" THEN DisplayAnswers ELSE {NO_DISPLAY}) :
       \E ini \in (IF once = "incomplete" /\ gd # NO_DISPLAY
                   THEN {EGL_FALSE, EGL_TRUE} ELSE {EGL_FALSE}) :
         LET dd == DisplayDeref(once, DISPLAY, gd, ini) IN
         /\ once' = dd.once
         /\ DISPLAY' = dd.value
         /\ getDisplayCalls' = getDisplayCalls + dd.gets
         /\ initializeCalls' = initializeCalls + dd.inits
         /\ destroyCalls' = IF dd.panicked THEN destroyCalls
                            ELSE [destroyCalls EXCEPT ![h] = @ + 1]
         /\ calls' = DisplayCalls(dd)
                     \o (IF dd.panicked THEN <<>>
                         ELSE <<Call("DestroySurface", h, 0, 0, "", "")>>)
         /\ last' = [op |-> "drop_wrapper",
                     status |-> IF dd.panicked THEN "panicked" ELSE "returned",
                     msg |-> IF dd.panicked THEN dd.msg ELSE "",
                     ret |-> NoSurface, input |-> h]
    /\ UNCHANGED <<debug_assertions, vars_threads, held, bindings, strong, nextSurface,
                   vars_gl, vars_account, vars_rt>>

\* ----------------------------------------------- Surface-Texture Binding
\* A texture object of the mock graphics API: whether its name is generated and
\* not deleted, the native surface whose image it was bound to, its parameters.
DefaultTexture ==
    [generated |-> FALSE, image |-> NO_SURFACE, mag |-> "LINEAR",
     min |-> "NEAREST_MIPMAP_LINEAR", wrap_s |-> "REPEAT", wrap_t |-> "REPEAT"]

\* The account the mocks keep of texture names and image bindings: what was
\* generated or image-bound and not yet deleted or released (a bag), and whether
\* a delete or release arrived for something that was not open. It is kept as
\* long as every bind returned a Binding and every Binding was used by
\* into_surface only; after a bind that panicked, a destroy or a dropped Binding it
\* is closed.
NoLedger == [kept |-> FALSE, open |-> EmptyBag, unmatched |-> FALSE]

TextureEntry(t) == <<"texture", NO_SURFACE, t>>
ImageEntry(h, t) == <<"image", h, t>>

Opened(l, x) == [l EXCEPT !.open = @ (+) One(x)]
Closed(l, x) ==
    IF BagIn(x, l.open) THEN [l EXCEPT !.open = @ (-) One(x)]
    ELSE [l EXCEPT !.unmatched = TRUE]

\* One call as the account records it.
Post(l, c) ==
    IF c.call = "GenTextures" THEN Opened(l, TextureEntry(c.n))
    ELSE IF c.call = "BindTexImage" THEN Opened(l, ImageEntry(c.surface, c.n))
    ELSE IF c.call = "ReleaseTexImage" THEN Closed(l, ImageEntry(c.surface, c.n))
    ELSE IF c.call = "DeleteTextures" THEN Closed(l, TextureEntry(c.n))
    ELSE l

RECURSIVE PostAll(_, _)
PostAll(l, cs) == IF cs = <<>> THEN l ELSE PostAll(Post(l, Head(cs)), Tail(cs))

\* Faulty variant: a linear magnification filter.
TexParameterCalls_linear ==
    <<Call("TexParameteri", NO_SURFACE, 0, 0, "TEXTURE_MAG_FILTER", "LINEAR"),
      Call("TexParameteri", NO_SURFACE, 0, 0, "TEXTURE_MIN_FILTER", "NEAREST"),
      Call("TexParameteri", NO_SURFACE, 0, 0, "TEXTURE_WRAP_S", "CLAMP_TO_EDGE"),
      Call("TexParameteri", NO_SURFACE, 0, 0, "TEXTURE_WRAP_T", "CLAMP_TO_EDGE")>>

\* The four tex_parameter_i calls of NativeSurfaceTexture::new, in order.
TexParameterCalls ==
    <<Call("TexParameteri", NO_SURFACE, 0, 0, "TEXTURE_MAG_FILTER", "NEAREST"),
      Call("TexParameteri", NO_SURFACE, 0, 0, "TEXTURE_MIN_FILTER", "NEAREST"),
      Call("TexParameteri", NO_SURFACE, 0, 0, "TEXTURE_WRAP_S", "CLAMP_TO_EDGE"),
      Call("TexParameteri", NO_SURFACE, 0, 0, "TEXTURE_WRAP_T", "CLAMP_TO_EDGE")>>

\* Their effect on the texture object that is current.
WithParameters(tex) ==
    [tex EXCEPT !.mag = "NEAREST", !.min = "NEAREST",
                !.wrap_s = "CLAMP_TO_EDGE", !.wrap_t = "CLAMP_TO_EDGE"]

\* The panic message of debug_assert_eq!(left, right) when left # right: three
\* lines, the second indented by two spaces and the third by one. A string of
\* this language cannot hold a grave accent, so the two that quote the expression
\* are written as apostrophes; everything else is character for character.
AssertEqMessage(left, right) ==
    "assertion 'left == right' failed\n  left: " \o ToString(left)
       \o "\n right: " \o ToString(right)

\* How far NativeSurfaceTexture::new gets: the panic that ends it, or "" when it
\* returns. debug_assert! and debug_assert_eq! exist in debug builds only.
BindOutcome(dbg, texture, bindOk, glError) ==
    IF dbg /\ texture = 0 THEN "assertion failed: texture != 0"
    ELSE IF bindOk = EGL_FALSE THEN "Failed to bind EGL texture surface!"
    ELSE IF dbg /\ glError # GL_NO_ERROR THEN AssertEqMessage(glError, GL_NO_ERROR)
    ELSE ""

\* Faulty variant: new returning with its texture still current.
UnboundTexture_left(texture) == texture

\* The name that new passes to its last bind_texture call, `gl.bind_texture(
\* gl::TEXTURE_2D, 0)`: none, whatever texture it generated.
UnboundTexture(texture) == 0

\* Faulty variant: the Binding built without the texture name.
NewBinding_unnamed(surface, texture) == [surface |-> surface, gl_texture |-> 0]

\* The NativeSurfaceTexture that new returns.
NewBinding(surface, texture) == [surface |-> surface, gl_texture |-> texture]

\* A Binding as the model keeps it: the NativeSurfaceTexture, what the accessors
\* of the Surface said when it was bound, and the texture names its unbinds
\* passed to delete_textures so far.
Tracked(binding, from, deleted) == [value |-> binding, from |-> from, deleted |-> deleted]

\* NativeSurfaceTexture::new(gl, native_surface): the Surface value s is
\* moved in. When it panics, unwinding drops native_surface. The answers of the
\* mocks are drawn only where the call that asks for them is made.
Bind(s) ==
    /\ \E texture \in {0} \cup ({nextTexture} \cap TextureNames) :
       LET asserted == debug_assertions /\ texture = 0 IN
       \E bindOk \in (IF asserted THEN {EGL_FALSE} ELSE {EGL_FALSE, EGL_TRUE}) :
       \E glError \in (IF debug_assertions /\ bindOk = EGL_TRUE
                       THEN GlErrors ELSE {GL_NO_ERROR}) :
         LET surface == s
             h == surface.wrapper
             msg == BindOutcome(debug_assertions, texture, bindOk, glError)
             imageBound == ~asserted /\ bindOk # EGL_FALSE
             d == DropValue(h)
             gen == IF texture = 0 THEN glTextures
                    ELSE [glTextures EXCEPT ![texture] = [DefaultTexture EXCEPT !.generated = TRUE]]
             b == Tracked(NewBinding(surface, texture), Observe(surface), <<>>)
             input == [surface |-> surface, texture |-> texture, bindOk |-> bindOk,
                       glError |-> glError, current |-> boundTexture]
         IN
         /\ nextTexture' = IF texture = 0 THEN nextTexture ELSE nextTexture + 1
         /\ glTextures' = IF imageBound
                          THEN [gen EXCEPT ![texture] = [WithParameters(@) EXCEPT !.image = h]]
                          ELSE gen
         /\ boundTexture' = IF asserted THEN boundTexture
                            ELSE IF imageBound THEN UnboundTexture(texture) ELSE texture
         /\ texImages' = IF imageBound THEN texImages \cup {<<h, texture>>} ELSE texImages
         /\ held' = held (-) One(s)
         /\ calls' =
              <<Call("GenTextures", NO_SURFACE, texture, 0, "", "")>>
              \o (IF asserted THEN <<>>
                  ELSE <<Call("BindTexture", NO_SURFACE, texture, 0, "TEXTURE_2D", ""),
                         Call("BindTexImage", h, texture, 0, "", "")>>)
              \o (IF imageBound
                  THEN <<Call("bind_to_gl_texture", h, surface.size[1], surface.size[2], "", "")>>
                       \o TexParameterCalls
                       \o <<Call("BindTexture", NO_SURFACE, UnboundTexture(texture), 0,
                                  "TEXTURE_2D", "")>>
                       \o (IF debug_assertions
                           THEN <<Call("GetError", NO_SURFACE, 0, 0, "", "")>> ELSE <<>>)
                  ELSE <<>>)
              \o (IF msg = "" THEN <<>> ELSE d.calls)
         /\ ledger' = IF msg = "" /\ ledger.kept THEN PostAll(ledger, calls') ELSE NoLedger
         /\ IF msg = ""
            THEN /\ bindings' = bindings (+) One(b)
                 /\ UNCHANGED <<strong, destroyCalls>>
                 /\ last' = [op |-> "bind", status |-> "returned", msg |-> "", ret |-> b,
                             input |-> input]
            ELSE /\ strong' = d.strong
                 /\ destroyCalls' = d.destroyCalls
                 /\ UNCHANGED bindings
                 /\ last' = [op |-> "bind", status |-> "panicked", msg |-> msg,
                             ret |-> NoSurface, input |-> input]
    /\ UNCHANGED <<debug_assertions, vars_display, vars_threads, nextSurface, requested,
                   vars_rt>>

\* The graphics API's delete_textures on one name: name 0 is silently ignored.
DeleteTexture(textures, t) ==
    IF t = 0 THEN textures ELSE [textures EXCEPT ![t] = DefaultTexture]

\* Faulty variant: destroy without `self.gl_texture = 0`.
DestroyedTexture_kept(t) == t

\* The identifier NativeSurfaceTexture::destroy leaves in gl_texture.
DestroyedTexture(t) == 0

\* The Surface that into_surface moves out of the Binding.
MovedSurface(binding) == binding.surface

\* Faulty variant: the texture deleted before its image is released.
DestroyCalls_delete_first(h, t) ==
    <<Call("DeleteTextures", NO_SURFACE, t, 0, "", ""),
      Call("ReleaseTexImage", h, t, 0, "", "")>>

\* The native calls of NativeSurfaceTexture::destroy, in order, for the native
\* surface h and the value t of self.gl_texture.
DestroyCalls(h, t) ==
    <<Call("ReleaseTexImage", h, t, 0, "", ""),
      Call("DeleteTextures", NO_SURFACE, t, 0, "", "")>>

\* The body of NativeSurfaceTexture::destroy on the Binding e. A deleted
\* texture that is current leaves the binding point at 0.
DestroyEffect(e) ==
    LET h == e.value.surface.wrapper
        t == e.value.gl_texture
    IN
    [texImages |-> texImages \ {<<h, t>>},
     glTextures |-> DeleteTexture(glTextures, t),
     boundTexture |-> IF t # 0 /\ boundTexture = t THEN 0 ELSE boundTexture,
     binding |-> Tracked([e.value EXCEPT !.gl_texture = DestroyedTexture(t)],
                         e.from, Append(e.deleted, t)),
     calls |-> DestroyCalls(h, t)]

\* NativeSurfaceTexture::destroy(&mut self, gl): the Binding stays alive.
Destroy(e) ==
    /\ Len(e.deleted) < MaxUnbinds
    /\ LET d == DestroyEffect(e) IN
       /\ texImages' = d.texImages
       /\ glTextures' = d.glTextures
       /\ boundTexture' = d.boundTexture
       /\ bindings' = (bindings (-) One(e)) (+) One(d.binding)
       /\ ledger' = NoLedger
       /\ calls' = d.calls
       /\ last' = [op |-> "destroy", status |-> "returned", msg |-> "", ret |-> NoSurface,
                   input |-> [before |-> e, after |-> d.binding]]
    /\ UNCHANGED <<debug_assertions, vars_display, vars_threads, held, strong, nextSurface,
                   destroyCalls, nextTexture, requested, vars_rt>>

\* NativeSurfaceTexture::into_surface(self, gl): destroy, then the Surface is moved
\* out to the caller and the Binding is gone.
IntoSurface(e) ==
    /\ LET d == DestroyEffect(e) IN
       /\ texImages' = d.texImages
       /\ glTextures' = d.glTextures
       /\ boundTexture' = d.boundTexture
       /\ bindings' = bindings (-) One(e)
       /\ held' = held (+) One(MovedSurface(d.binding.value))
       /\ ledger' = IF ledger.kept THEN PostAll(ledger, d.calls) ELSE NoLedger
       /\ calls' = d.calls
       /\ last' = [op |-> "into_surface", status |-> "returned", msg |-> "",
                   ret |-> MovedSurface(d.binding.value),
                   input |-> [before |-> e, after |-> d.binding]]
    /\ UNCHANGED <<debug_assertions, vars_display, vars_threads, strong, nextSurface,
                   destroyCalls, nextTexture, requested, vars_rt>>

\* A Binding goes out of scope. NativeSurfaceTexture has no Drop of its own: its
\* fields are dropped, so the Surface it owns is.
DropBinding(e) ==
    /\ LET d == DropValue(e.value.surface.wrapper) IN
       /\ bindings' = bindings (-) One(e)
       /\ strong' = d.strong
       /\ destroyCalls' = d.destroyCalls
       /\ ledger' = NoLedger
       /\ calls' = d.calls
       /\ last' = [op |-> "drop_binding", status |-> "returned", msg |-> "",
                   ret |-> NoSurface, input |-> [before |-> e, after |-> e]]
    /\ UNCHANGED <<debug_assertions, vars_display, vars_threads, held, nextSurface,
                   vars_gl, requested, vars_rt>>

\* NativeSurfaceTexture::surface(&self): the Surface the Binding owns, by reference.
surface(binding) == binding.surface

\* `binding.surface().clone()`: the caller clones the Surface a Binding owns, bound
\* or not.
CloneOfBinding(e) == Clone(surface(e.value))

\* One evaluation of get_pbuffer_renderable_type.
Renderable ==
    /\ \E api_type \in ApiTypes, major \in 0..MaxMajorVersion :
         /\ rt_in' = <<api_type, major>>
         /\ rt_out' = get_pbuffer_renderable_type(api_type, major)
    /\ last' = [op |-> "get_pbuffer_renderable_type", status |-> "returned", msg |-> "",
                ret |-> NoSurface, input |-> NoSurface]
    /\ UNCHANGED <<debug_assertions, vars_display, vars_threads, vars_surface, vars_gl,
                   vars_account, calls>>

\* ------------------------------------------------------- specifications
Init ==
    /\ debug_assertions \in BOOLEAN
    /\ once = "incomplete"
    /\ DISPLAY = NO_DISPLAY
    /\ getDisplayCalls = 0
    /\ initializeCalls = 0
    /\ tpc = [t \in Threads |-> "idle"]
    /\ tseen = [t \in Threads |-> NO_DISPLAY]
    /\ held = EmptyBag
    /\ bindings = EmptyBag
    /\ strong = [h \in Handles |-> 0]
    /\ nextSurface = 1
    /\ destroyCalls = [h \in Handles |-> 0]
    /\ texImages = {}
    /\ glTextures = [t \in TextureNames |-> DefaultTexture]
    /\ nextTexture = 1
    /\ boundTexture = 0
    /\ requested = [h \in Handles |-> NoSurface]
    /\ ledger = [NoLedger EXCEPT !.kept = TRUE]
    /\ calls = <<>>
    /\ last = [op |-> "none", status |-> "returned", msg |-> "", ret |-> NoSurface,
               input |-> NoSurface]
    /\ rt_in = <<"Gl", 0>>
    /\ rt_out = 0

\* Surfaces and Bindings used by one caller at a time.
Next ==
    \/ Create
    \/ \E s \in Held : Clone(s)
    \/ \E e \in Bound : CloneOfBinding(e)
    \/ \E s \in Held : DropSurface(s)
    \/ \E h \in Handles : DropWrapper(h)
    \/ \E s \in Held : Bind(s)
    \/ \E e \in Bound : Destroy(e)
    \/ \E e \in Bound : IntoSurface(e)
    \/ \E e \in Bound : DropBinding(e)

Spec == Init /\ [][Next]_vars

\* Threads that use the display concurrently.
NextDisplay ==
    \E t \in Threads :
       \/ DerefBegin(t) /\ UNCHANGED <<debug_assertions, vars_surface, vars_gl, vars_account, calls, last, vars_rt>>
       \/ DerefInit(t) /\ UNCHANGED <<debug_assertions, vars_surface, vars_gl, vars_account, calls, last, vars_rt>>
       \/ DerefWake(t) /\ UNCHANGED <<debug_assertions, vars_surface, vars_gl, vars_account, calls, last, vars_rt>>
       \/ DerefAgain(t) /\ UNCHANGED <<debug_assertions, vars_surface, vars_gl, vars_account, calls, last, vars_rt>>

SpecDisplay == Init /\ [][NextDisplay]_vars

\* The Configuration Selector on its own.
SpecRenderable == Init /\ [][Renderable]_vars

\* ---------------------------------------------------------------- claims
IsUnbind == last.op \in {"destroy", "into_surface"}

\* C1: a native surface is never passed to DestroySurface while a texture that was
\* image-bound to it is still image-bound or still undeleted.
C1_NoDestroyWhileTextureBound ==
    \A h \in Handles :
       destroyCalls[h] > 0 =>
          \A t \in TextureNames :
             /\ <<h, t>> \notin texImages
             /\ ~(glTextures[t].generated /\ glTextures[t].image = h)

\* C2: DestroySurface is called exactly once for a native surface, in the step in
\* which the last Surface value referring to it (held or inside a Binding) is
\* dropped, and not while any such value remains: the number of DestroySurface
\* calls a handle has received is 1 when it was created and no value is left, and
\* 0 otherwise.
C2_DestroyOnceAtLastDrop ==
    \A n \in 1..MaxNativeSurfaces :
       LET h == HandleOf(n) IN
       /\ destroyCalls[h] = (IF n < nextSurface /\ ValuesOf(h) = 0 THEN 1 ELSE 0)
       /\ \A i \in DOMAIN calls :
             (calls[i].call = "DestroySurface" /\ calls[i].surface = h) => ValuesOf(h) = 0

\* C3: a Binding's texture identifier is non-zero exactly while it is bound, that
\* is, as long as destroy has not run on it.
C3_TextureNonZeroIffBound ==
    \A e \in Bound : (e.value.gl_texture # 0) <=> (Len(e.deleted) = 0)

\* C4 as claimed: delete-texture is called at most once for a Binding, and an
\* unbind of an already-unbound Binding issues no native call.
C4_NoCallOnSecondUnbind ==
    /\ \A e \in Bound : Len(e.deleted) <= 1
    /\ IsUnbind => Len(last.input.after.deleted) <= 1
    /\ (IsUnbind /\ Len(last.input.after.deleted) >= 2) => calls = <<>>

\* C4 as amended: only the first unbind of a Binding passes its texture identifier
\* to release-image and delete-texture; a later unbind issues one release-image
\* and one delete-texture call, both for identifier 0.
C4_TextureDeletedOnce ==
    /\ \A e \in Bound : \A i \in 2..Len(e.deleted) : e.deleted[i] = 0
    /\ IsUnbind =>
          \A i \in 2..Len(last.input.after.deleted) : last.input.after.deleted[i] = 0
    /\ (IsUnbind /\ Len(last.input.after.deleted) >= 2) =>
          calls = <<Call("ReleaseTexImage", last.input.before.value.surface.wrapper,
                         0, 0, "", ""),
                    Call("DeleteTextures", NO_SURFACE, 0, 0, "", "")>>

\* C4 witness: into_surface on a Binding that destroy had already unbound, whose
\* texture was a generated one.
C4_Witness ==
    /\ last.op = "into_surface"
    /\ Len(last.input.after.deleted) = 2
    /\ last.input.after.deleted[1] # 0

\* C5: when BindTexImage reports failure, the texture that bind generated has
\* been deleted when the failure reaches the caller.
C5_FailedBindDeletesTexture ==
    (/\ last.op = "bind"
     /\ "BindTexImage" \in CallNames(calls)
     /\ last.input.bindOk = EGL_FALSE
     /\ last.input.texture # 0)
    => /\ last.status # "returned"
       /\ ~glTextures[last.input.texture].generated

\* C6: the Surface that into_surface returns has the size, format, api_version
\* and id of the Surface that was bound, and its native surface has not been
\* destroyed: no DestroySurface call was ever received for it.
C6_RoundTrip ==
    last.op = "into_surface" =>
       /\ Observe(last.ret) = last.input.before.from
       /\ last.ret \in Held
       /\ destroyCalls[last.ret.wrapper] = 0

\* C7: the display is opened and initialized at most once however the threads
\* interleave; a thread's access returns only after initialization completed, and
\* every access of every thread observes the one handle stored then.
C7_DisplayInitializedOnce ==
    /\ getDisplayCalls <= 1
    /\ initializeCalls <= 1
    /\ once = "complete" => (DISPLAY # NO_DISPLAY /\ getDisplayCalls = 1 /\ initializeCalls = 1)
    /\ \A t \in Threads :
          /\ tpc[t] = "done" => (once = "complete" /\ tseen[t] = DISPLAY)
          /\ tseen[t] # NO_DISPLAY => tseen[t] = DISPLAY

\* C7 witness: one thread initialized the display and finished its access while
\* another, which arrived during the initialization, is still blocked on it.
C7_Witness ==
    \E t \in Threads, u \in Threads :
       /\ tpc[t] = "done"
       /\ tpc[u] = "blocked"
       /\ tseen[t] # NO_DISPLAY

\* C8: get_pbuffer_renderable_type returns the value of the policy table for every
\* api_type and major version, and no combination is left without a value.
C8_RenderableTable ==
    last.op = "get_pbuffer_renderable_type" =>
       /\ last.status = "returned"
       /\ rt_in[1] = "Gl" => rt_out = OPENGL_BIT
       /\ (rt_in[1] = "Gles" /\ rt_in[2] < 2) => rt_out = OPENGL_ES_BIT
       /\ (rt_in[1] = "Gles" /\ rt_in[2] = 2) => rt_out = OPENGL_ES2_BIT
       /\ (rt_in[1] = "Gles" /\ rt_in[2] >= 3) => rt_out = OPENGL_ES3_BIT

\* C8 witness: embedded GL at major version 2 was evaluated.
C8_Witness ==
    /\ last.op = "get_pbuffer_renderable_type"
    /\ rt_in = <<"Gles", 2>>
    /\ rt_out = OPENGL_ES2_BIT

\* C9: when the texture-generate call returns 0, bind fails: BindTexImage is not
\* called, no Binding is returned and the Surface is not left image-bound.
C9_ZeroTextureFailsBind ==
    (last.op = "bind" /\ last.input.texture = 0) =>
       /\ last.status # "returned"
       /\ "BindTexImage" \notin CallNames(calls)
       /\ IsNone(last.ret)
       /\ <<last.input.surface.wrapper, 0>> \notin texImages

\* The creations that reached the display and found no configuration or got no surface.
CreateFailed ==
    /\ last.op = "create"
    /\ "ChooseConfig" \in CallNames(calls)
    /\ last.input.chooseOk = EGL_TRUE
    /\ (last.input.found = 0 \/ last.input.created = NO_SURFACE)

\* C10 as claimed: such a creation ends in a typed failure, NoCompatibleConfiguration
\* or SurfaceAllocationFailed, handed to the caller.
C10_TypedFailure ==
    CreateFailed =>
       /\ last.status = "failed"
       /\ last.msg = (IF last.input.found = 0 THEN "NoCompatibleConfiguration"
                      ELSE "SurfaceAllocationFailed")

\* C10 as amended: such a creation panics; with no configuration found it does so
\* without calling CreatePbufferSurface; no Surface value is produced and the
\* creation issues no DestroySurface call.
C10_PanicsWithoutPartialState ==
    CreateFailed =>
       /\ last.status = "panicked"
       /\ last.msg = (IF last.input.found = 0 THEN "No valid EGL configurations found!"
                      ELSE "Failed to create EGL surface!")
       /\ last.input.found = 0 => "CreatePbufferSurface" \notin CallNames(calls)
       /\ IsNone(last.ret)
       /\ "DestroySurface" \notin CallNames(calls)
       /\ strong[HandleOf(nextSurface)] = 0
       /\ ValuesOf(HandleOf(nextSurface)) = 0

\* C10 witness: a creation for which the display found no configuration.
C10_Witness ==
    /\ CreateFailed
    /\ last.input.found = 0
    /\ last.msg = "No valid EGL configurations found!"

\* C11: a creation asked for a size with width <= 0 or height <= 0 fails: no
\* CreatePbufferSurface call is issued to the display and no Surface is returned.
C11_NonPositiveSizeFails ==
    (/\ last.op = "create"
     /\ (last.input.request.size[1] <= 0 \/ last.input.request.size[2] <= 0))
    => /\ "CreatePbufferSurface" \notin CallNames(calls)
       /\ last.status # "returned"
       /\ IsNone(last.ret)

\* C12: every bind that returns a Binding leaves the current TEXTURE_2D binding at
\* 0, whatever texture was current before the call: its last call that sets the
\* binding point is bind_texture(TEXTURE_2D, 0).
C12_BindLeavesNoTextureCurrent ==
    (last.op = "bind" /\ last.status = "returned") =>
       /\ boundTexture = 0
       /\ \E i \in DOMAIN calls :
             /\ calls[i] = Call("BindTexture", NO_SURFACE, 0, 0, "TEXTURE_2D", "")
             /\ \A j \in DOMAIN calls : calls[j].call = "BindTexture" => j <= i

\* C12 witness: a bind returned a Binding for a generated texture.
C12_Witness ==
    /\ last.op = "bind"
    /\ last.status = "returned"
    /\ last.input.texture # 0
    /\ last.ret.value.gl_texture = last.input.texture

\* The Bindings in the bound state: those no unbind has run on.
BoundBindings == {e \in Bound : Len(e.deleted) = 0}

\* C13 as claimed: a bound Binding exclusively owns its native surface: no other
\* bound Binding and no Surface value outside it refers to that native surface.
C13_ExclusiveNativeSurface ==
    \A e \in BoundBindings :
       LET h == e.value.surface.wrapper IN
       /\ \A s \in Held : s.wrapper # h
       /\ \A f \in BoundBindings : f.value.surface.wrapper = h => f = e
       /\ bindings[e] = 1

\* The positions in the latest operation's calls of the calls named name.
CallsNamed(name) == {i \in DOMAIN calls : calls[i].call = name}

\* The Bindings in the bound state that own a value of native surface h.
BoundTo(h) ==
    BagCardinality([e \in {x \in BoundBindings : x.value.surface.wrapper = h}
                       |-> bindings[e]])

\* C13 as amended: a Binding owns the Surface value that was moved into it, and
\* nothing more. In every state the reference count of every native surface is
\* the number of Surface values that refer to it, held by the caller or owned by
\* Bindings, and a drop of a Surface value (the caller's, a Binding's, or the
\* argument of a bind that panics) calls DestroySurface only when it was the last.
\* A returning bind stores exactly the value it was given, makes no reference of
\* its own and calls no DestroySurface.
C13_OwnsMovedValue ==
    /\ \A n \in 1..MaxNativeSurfaces : strong[HandleOf(n)] = ValuesOf(HandleOf(n))
    /\ \A e \in Bound : strong[e.value.surface.wrapper] >= 1
    /\ last.op \in {"drop_surface", "drop_binding", "bind"} =>
          \A i \in CallsNamed("DestroySurface") : ValuesOf(calls[i].surface) = 0
    /\ (last.op = "bind" /\ last.status = "returned") =>
          /\ last.ret.value.surface = last.input.surface
          /\ last.ret \in Bound
          /\ CallsNamed("DestroySurface") = {}

\* C13 witness: a bind returned a Binding for a clone of a Surface that another
\* Binding owns: two Bindings, each bound to a generated texture of its own, refer
\* to one native surface.
C13_Witness ==
    /\ last.op = "bind"
    /\ last.status = "returned"
    /\ last.input.texture # 0
    /\ BoundTo(last.input.surface.wrapper) = 2
    /\ strong[last.input.surface.wrapper] = 2
    /\ \A e \in BoundBindings : e.value.gl_texture # 0

\* What size() and format() say of the Surface s is what its native surface was
\* created with.
AsRequested(s) ==
    /\ size(s) = requested[s.wrapper].size
    /\ format(s) = requested[s.wrapper].format

\* The Surfaces the claim is about: created with a positive width and height.
PositiveSize(s) ==
    /\ ~IsNone(requested[s.wrapper])
    /\ requested[s.wrapper].size[1] > 0
    /\ requested[s.wrapper].size[2] > 0

\* C14: size() and format() of a Surface created with a positive size return the
\* size and format its creation was called with: right after the creation, and for
\* every value that refers to it after any clone, bind and unbind, whether the
\* caller holds the value, a Binding owns it (surface()), or an operation has just
\* returned it.
C14_SizeFormatImmutable ==
    /\ \A s \in Held : PositiveSize(s) => AsRequested(s)
    /\ \A e \in Bound : PositiveSize(e.value.surface) => AsRequested(e.value.surface)
    /\ (/\ last.op \in {"create", "clone", "into_surface"}
        /\ last.status = "returned"
        /\ PositiveSize(last.ret)) => AsRequested(last.ret)
    /\ (last.op = "create" /\ last.status = "returned") =>
          /\ requested[last.ret.wrapper] = last.input.request
          /\ PositiveSize(last.ret) =>
                (size(last.ret) = last.input.request.size
                 /\ format(last.ret) = last.input.request.format)

\* C14 witness: a Surface created with a positive size was cloned, bound and
\* unbound; the caller holds the value into_surface returned and the clone.
C14_Witness ==
    /\ last.op = "into_surface"
    /\ PositiveSize(last.ret)
    /\ size(last.ret) = <<64, 64>>
    /\ format(last.ret) = "RGBA8"
    /\ BagCardinality(held) = 2

\* C15: an unbind (destroy or into_surface) of a Binding in the bound state issues
\* exactly two native calls, in this order: ReleaseTexImage for the Binding's
\* native surface and texture, then delete_textures for the texture identifier as
\* it was stored (not yet zeroed, so non-zero when the Binding's was); afterwards
\* the stored identifier is 0, and into_surface then hands the caller the Surface
\* the Binding owned. Unbind makes no DestroySurface call and gives up no
\* reference to the native surface.
C15_UnbindOrder ==
    (IsUnbind /\ Len(last.input.before.deleted) = 0) =>
       LET e == last.input.before
           h == e.value.surface.wrapper
           t == e.value.gl_texture
       IN
       /\ Len(calls) = 2
       /\ calls[1] = Call("ReleaseTexImage", h, t, 0, "", "")
       /\ calls[2] = Call("DeleteTextures", NO_SURFACE, t, 0, "", "")
       /\ last.input.after.value.gl_texture = 0
       /\ last.input.after.deleted = <<t>>
       /\ last.input.after.value.surface = e.value.surface
       /\ last.op = "into_surface" => (last.ret = e.value.surface /\ last.ret \in Held)
       /\ last.op = "destroy" => last.input.after \in Bound
       /\ "DestroySurface" \notin CallNames(calls)
       /\ strong[h] >= 1

\* C15 witness: into_surface ran on a bound Binding whose texture was generated,
\* and passed that texture to delete_textures.
C15_Witness ==
    /\ last.op = "into_surface"
    /\ last.input.before.deleted = <<>>
    /\ last.input.before.value.gl_texture # 0
    /\ Len(calls) = 2
    /\ calls[2].call = "DeleteTextures"
    /\ calls[2].n = last.input.before.value.gl_texture

\* The tex_parameter_i calls that set parameter pname to value.
ParameterSet(pname, value) ==
    {i \in CallsNamed("TexParameteri") :
        calls[i].pname = pname /\ calls[i].pvalue = value}

\* C16: the native calls of a bind come in a fixed order. Every bind generates
\* exactly one texture, first of all, and issues at most one BindTexImage call.
\* A bind that returns a Binding has: the texture made current; then exactly one
\* BindTexImage for the Surface and that texture; then, with no other texture made
\* current in between, the four parameters (NEAREST magnification and minification,
\* CLAMP_TO_EDGE for S and T), which land on that texture; then the binding point
\* reset to 0, after which the binding point is not touched. A bind whose
\* BindTexImage failed sets no parameter.
C16_BindOrder ==
    last.op = "bind" =>
       LET t == last.input.texture
           h == last.input.surface.wrapper
           gens == CallsNamed("GenTextures")
           images == CallsNamed("BindTexImage")
           params == CallsNamed("TexParameteri")
           currents == CallsNamed("BindTexture")
       IN
       /\ gens = {1}
       /\ calls[1].n = t
       /\ Cardinality(images) <= 1
       /\ images # {} =>
             /\ images = {3}
             /\ calls[2] = Call("BindTexture", NO_SURFACE, t, 0, "TEXTURE_2D", "")
             /\ calls[3] = Call("BindTexImage", h, t, 0, "", "")
       /\ last.status = "returned" =>
             /\ images = {3}
             /\ last.input.bindOk # EGL_FALSE
             /\ Cardinality(params) = 4
             /\ Cardinality(ParameterSet("TEXTURE_MAG_FILTER", "NEAREST")) = 1
             /\ Cardinality(ParameterSet("TEXTURE_MIN_FILTER", "NEAREST")) = 1
             /\ Cardinality(ParameterSet("TEXTURE_WRAP_S", "CLAMP_TO_EDGE")) = 1
             /\ Cardinality(ParameterSet("TEXTURE_WRAP_T", "CLAMP_TO_EDGE")) = 1
             /\ Cardinality(currents) = 2
             /\ \E r \in currents :
                   /\ r > 3
                   /\ calls[r].n = 0
                   /\ \A i \in params : 3 < i /\ i < r
             /\ glTextures[t].image = h
             /\ glTextures[t].mag = "NEAREST"
             /\ glTextures[t].min = "NEAREST"
             /\ glTextures[t].wrap_s = "CLAMP_TO_EDGE"
             /\ glTextures[t].wrap_t = "CLAMP_TO_EDGE"
             /\ boundTexture = 0
       /\ (images # {} /\ last.input.bindOk = EGL_FALSE) =>
             /\ last.status = "panicked"
             /\ params = {}

\* C16 witness: a bind generated a texture, image-bound the Surface to it, set its
\* parameters and returned a Binding.
C16_Witness ==
    /\ last.op = "bind"
    /\ last.status = "returned"
    /\ last.input.texture # 0
    /\ Cardinality(CallsNamed("TexParameteri")) = 4
    /\ glTextures[last.input.texture].generated

\* C17 as claimed: an instance on which an unbind has run is consumed: no such
\* Binding remains for the caller to use, and no unbind runs on one.
C17_UnboundIsConsumed ==
    /\ \A e \in Bound : Len(e.deleted) = 0
    /\ IsUnbind => Len(last.input.before.deleted) = 0

\* C17 as amended: the unbound state is terminal but only into_surface consumes the
\* instance. A Binding on which an unbind has run keeps texture identifier 0 and
\* the Surface it owned, whatever runs on it later; a later unbind of it passes
\* identifier 0 to its two native calls and leaves it unbound; into_surface takes
\* the instance away: its Surface is the caller's again and no reference is left
\* behind in a Binding.
C17_UnboundIsTerminal ==
    /\ \A e \in Bound :
          Len(e.deleted) >= 1 =>
             /\ e.value.gl_texture = 0
             /\ Observe(e.value.surface) = e.from
    /\ IsUnbind =>
          /\ last.input.after.value.gl_texture = 0
          /\ last.input.after.value.surface = last.input.before.value.surface
    /\ (IsUnbind /\ Len(last.input.before.deleted) >= 1) =>
          /\ last.input.before.value.gl_texture = 0
          /\ \A i \in DOMAIN calls : calls[i].n = 0
          /\ CallsNamed("GenTextures") = {}
          /\ CallsNamed("BindTexImage") = {}
    /\ last.op = "destroy" => last.input.after \in Bound
    /\ last.op = "into_surface" =>
          /\ last.ret \in Held
          /\ strong[last.ret.wrapper] = ValuesOf(last.ret.wrapper)

\* C17 witness: destroy ran on a Binding bound to a generated texture, and the
\* instance is still there, unbound.
C17_Witness ==
    /\ last.op = "destroy"
    /\ last.input.before.value.gl_texture # 0
    /\ last.input.after \in Bound
    /\ last.input.after.value.gl_texture = 0

\* How many Bindings hold texture t / hold texture t for native surface h.
BindingsOfTexture(t) ==
    BagCardinality([e \in {x \in Bound : x.value.gl_texture = t} |-> bindings[e]])

BindingsOfImage(h, t) ==
    BagCardinality([e \in {x \in Bound : x.value.gl_texture = t
                                         /\ x.value.surface.wrapper = h} |-> bindings[e]])

\* C18: as long as every bind returned a Binding and Bindings were given up by
\* into_surface only, the texture names generated and not deleted are exactly
\* those of the Bindings not yet given up, one generated name per Binding, and so
\* are the image bindings made and not released; no delete or release was issued
\* for a name or image that was not outstanding. So once every Binding has gone
\* through into_surface, every generated name was deleted exactly once, every
\* BindTexImage was matched by one ReleaseTexImage for the same surface and
\* texture, and nothing else was deleted.
C18_TexturesAndImagesBalanced ==
    ledger.kept =>
       /\ ~ledger.unmatched
       /\ \A t \in TextureNames :
             /\ CopiesIn(TextureEntry(t), ledger.open) = BindingsOfTexture(t)
             /\ \A n \in 1..MaxNativeSurfaces :
                   CopiesIn(ImageEntry(HandleOf(n), t), ledger.open)
                      = BindingsOfImage(HandleOf(n), t)
       /\ BagCardinality(ledger.open) = 2 * BagCardinality(bindings)
       /\ bindings = EmptyBag =>
             /\ ledger.open = EmptyBag
             /\ texImages = {}
             /\ \A t \in TextureNames : ~glTextures[t].generated
       /\ IsUnbind =>
             /\ last.op = "into_surface"
             /\ calls = <<Call("ReleaseTexImage", last.ret.wrapper,
                               last.input.before.value.gl_texture, 0, "", ""),
                          Call("DeleteTextures", NO_SURFACE,
                               last.input.before.value.gl_texture, 0, "", "")>>

\* C18 witness: the one Binding made so far, bound to a generated texture, has gone
\* through into_surface, and no bind failed and no Binding was destroyed or dropped
\* before.
C18_Witness ==
    /\ ledger.kept
    /\ last.op = "into_surface"
    /\ last.input.before.value.gl_texture # 0
    /\ nextTexture > 1
    /\ bindings = EmptyBag

====
